---------------------------- MODULE Spec2Model ----------------------------
(***************************************************************************)
(* Treasury / reserve subsystem of pUSD (src/src/lib/treasury.ts) together *)
(* with ReserveManager and Token2022Manager (src/unnamed/part_006).        *)
(*                                                                         *)
(* Amounts are JavaScript numbers (IEEE-754 binary64) and atomic amounts   *)
(* are JavaScript BigInts.  TLC's integers are 32 bits wide, so both are   *)
(* modelled on arbitrary-precision naturals kept as little-endian limb     *)
(* sequences in base 10^4 ("Big").  A finite double is sign * m * 2^e with *)
(* m < 2^53.                                                               *)
(***************************************************************************)
EXTENDS Integers, Sequences, FiniteSets, TLC

(***************************************************************************)
(* Arbitrary-precision naturals (JavaScript BigInt magnitudes).            *)
(***************************************************************************)
Base == 10000

RECURSIVE BigNorm(_)
BigNorm(s) ==
  IF s = <<>> THEN <<>>
  ELSE IF s[Len(s)] = 0 THEN BigNorm(SubSeq(s, 1, Len(s) - 1))
  ELSE s

RECURSIVE BigOf(_)
BigOf(n) == IF n = 0 THEN <<>> ELSE <<n % Base>> \o BigOf(n \div Base)

Limb(a, i) == IF i <= Len(a) THEN a[i] ELSE 0

MaxOf(i, j) == IF i >= j THEN i ELSE j

RECURSIVE BigAddRec(_, _, _, _)
BigAddRec(a, b, i, carry) ==
  IF i > MaxOf(Len(a), Len(b))
  THEN (IF carry = 0 THEN <<>> ELSE <<carry>>)
  ELSE LET t == Limb(a, i) + Limb(b, i) + carry
       IN  <<t % Base>> \o BigAddRec(a, b, i + 1, t \div Base)

BigAdd(a, b) == BigAddRec(a, b, 1, 0)

RECURSIVE BigLessRec(_, _, _)
BigLessRec(a, b, i) ==
  IF i = 0 THEN FALSE
  ELSE IF a[i] # b[i] THEN a[i] < b[i]
  ELSE BigLessRec(a, b, i - 1)

\* a < b on normalised limb sequences
BigLess(a, b) ==
  IF Len(a) # Len(b) THEN Len(a) < Len(b) ELSE BigLessRec(a, b, Len(a))

BigLeq(a, b) == ~BigLess(b, a)

RECURSIVE BigSubRec(_, _, _, _)
BigSubRec(a, b, i, borrow) ==
  IF i > Len(a) THEN <<>>
  ELSE LET t == a[i] - Limb(b, i) - borrow
       IN  IF t < 0
           THEN <<t + Base>> \o BigSubRec(a, b, i + 1, 1)
           ELSE <<t>> \o BigSubRec(a, b, i + 1, 0)

\* a - b for a >= b
BigSub(a, b) == BigNorm(BigSubRec(a, b, 1, 0))

RECURSIVE BigMulSmallRec(_, _, _, _)
BigMulSmallRec(a, c, i, carry) ==
  IF i > Len(a)
  THEN (IF carry = 0 THEN <<>> ELSE BigOf(carry))
  ELSE LET t == a[i] * c + carry
       IN  <<t % Base>> \o BigMulSmallRec(a, c, i + 1, t \div Base)

\* a * c for 0 <= c <= Base
BigMulSmall(a, c) == BigNorm(BigMulSmallRec(a, c, 1, 0))

RECURSIVE BigDivSmallRec(_, _, _, _)
BigDivSmallRec(a, d, i, rem) ==
  IF i = 0 THEN [q |-> <<>>, r |-> rem]
  ELSE LET cur   == rem * Base + a[i]
           lower == BigDivSmallRec(a, d, i - 1, cur % d)
       IN  [q |-> Append(lower.q, cur \div d), r |-> lower.r]

\* quotient and remainder of a by d, 0 < d <= Base
BigDivSmall(a, d) ==
  LET res == BigDivSmallRec(a, d, Len(a), 0)
  IN  [q |-> BigNorm(res.q), r |-> res.r]

BigOdd(a) == a # <<>> /\ a[1] % 2 = 1

\* 2^j and 10^j as machine integers, for small j
RECURSIVE Pow2(_)
Pow2(j) == IF j = 0 THEN 1 ELSE 2 * Pow2(j - 1)

RECURSIVE Pow10(_)
Pow10(j) == IF j = 0 THEN 1 ELSE 10 * Pow10(j - 1)

MinOf(i, j) == IF i <= j THEN i ELSE j

\* a * 10^d, a limb-sized factor at a time
RECURSIVE BigMulPow10(_, _)
BigMulPow10(a, d) ==
  IF d = 0 \/ a = <<>> THEN a
  ELSE BigMulPow10(BigMulSmall(a, Pow10(MinOf(d, 3))), d - MinOf(d, 3))

\* a * 2^k, a limb-sized factor at a time
RECURSIVE BigMulPow2(_, _)
BigMulPow2(a, k) ==
  IF k = 0 \/ a = <<>> THEN a
  ELSE BigMulPow2(BigMulSmall(a, Pow2(MinOf(k, 13))), k - MinOf(k, 13))

\* 2^53: every binary64 significand is below it
Two53 == BigMulPow2(BigOf(1), 53)

\* 2^64: the ledger's amount field holds values below it
Two64 == BigMulPow2(BigOf(1), 64)

(***************************************************************************)
(* Shifting right by k bits, remembering the last bit shifted out (guard)  *)
(* and whether any earlier bit shifted out was set (sticky).               *)
(***************************************************************************)
RECURSIVE ShiftRight(_, _, _, _)
ShiftRight(a, k, guard, sticky) ==
  IF k = 0 THEN [q |-> a, guard |-> guard, sticky |-> sticky]
  ELSE IF a = <<>>
  THEN [q |-> <<>>, guard |-> FALSE, sticky |-> sticky \/ guard]
  ELSE LET j    == MinOf(k, 13)
           h    == BigDivSmall(a, Pow2(j))
           half == Pow2(j - 1)
       IN  ShiftRight(h.q, k - j, h.r >= half,
                      sticky \/ guard \/ (h.r % half # 0))

(***************************************************************************)
(* binary64 values: kind "finite" (sign * m * 2^e), "nan" or "inf".        *)
(***************************************************************************)
Dbl(neg, m, e) == [kind |-> "finite", neg |-> neg, m |-> m, e |-> e]
NaN == [kind |-> "nan", neg |-> FALSE, m |-> <<>>, e |-> 0]
PosInfinity == [kind |-> "inf", neg |-> FALSE, m |-> <<>>, e |-> 0]

\* round-to-nearest, ties-to-even, of the exact value x * 2^e to 53 bits
RECURSIVE Round53(_, _, _, _)
Round53(x, e, guard, sticky) ==
  IF BigLess(x, Two53)
  THEN [m |-> IF guard /\ (sticky \/ BigOdd(x)) THEN BigAdd(x, BigOf(1)) ELSE x,
        e |-> e]
  ELSE LET h == BigDivSmall(x, 2)
       IN  Round53(h.q, e + 1, h.r = 1, sticky \/ guard)

\* the double product a * 10 ** d (10 ** d is exact in binary64 for d <= 22)
DblMulPow10(a, d) ==
  IF a.kind # "finite" THEN a
  ELSE LET r == Round53(BigMulPow10(a.m, d), a.e, FALSE, FALSE)
       IN  Dbl(a.neg, r.m, r.e)

\* Math.round: the integer nearest to x, ties towards +Infinity
MathRound(x) ==
  IF x.kind # "finite" THEN x
  ELSE IF x.e >= 0 THEN Dbl(x.neg, BigMulPow2(x.m, x.e), 0)
  ELSE LET s  == ShiftRight(x.m, 0 - x.e, FALSE, FALSE)
           up == IF x.neg THEN s.guard /\ s.sticky ELSE s.guard
       IN  Dbl(x.neg, IF up THEN BigAdd(s.q, BigOf(1)) ELSE s.q, 0)

\* a < b on doubles (false when either is NaN)
DblMag(a, emin) == BigMulPow2(a.m, a.e - emin)
DblLess(a, b) ==
  IF a.kind = "nan" \/ b.kind = "nan" THEN FALSE
  ELSE IF a.kind = "inf" THEN FALSE
  ELSE IF b.kind = "inf" THEN TRUE
  ELSE LET emin == IF a.e <= b.e THEN a.e ELSE b.e
           ma   == DblMag(a, emin)
           mb   == DblMag(b, emin)
       IN  IF a.neg /\ ~b.neg THEN ma # <<>> \/ mb # <<>>
           ELSE IF ~a.neg /\ b.neg THEN FALSE
           ELSE IF a.neg THEN BigLess(mb, ma)
           ELSE BigLess(ma, mb)

\* amount <= 0
DblLeqZero(a) ==
  a.kind = "finite" /\ (a.m = <<>> \/ a.neg)

(***************************************************************************)
(* Conversion of a decimal amount to atomic units, as written at           *)
(* treasury.ts:118-119 and 174-175: BigInt(Math.round(amount * 10 ** d)).  *)
(* BigInt() raises RangeError for NaN and Infinity.                        *)
(***************************************************************************)
USDC_DECIMALS == 6
PUSDC_DECIMALS == 9

SBig(neg, mag) == [ok |-> TRUE, neg |-> neg /\ mag # <<>>, mag |-> mag]
SZero == SBig(FALSE, <<>>)
SRangeError == [ok |-> FALSE, neg |-> FALSE, mag |-> <<>>]

BigIntOf(x) == IF x.kind # "finite" THEN SRangeError ELSE SBig(x.neg, x.m)

ToAtomic(amount, decimals) == BigIntOf(MathRound(DblMulPow10(amount, decimals)))

\* bal < amt for a ledger balance (a natural) and a BigInt amount
BalLess(bal, amt) == IF amt.neg THEN FALSE ELSE BigLess(bal, amt.mag)

\* Number(x) for a BigInt x, then BigInt(...) of it when the instruction is
\* encoded: the nearest double, read back as an integer
NumberOf(amt) ==
  LET r == Round53(amt.mag, 0, FALSE, FALSE)
  IN  SBig(amt.neg, BigMulPow2(r.m, r.e))

(***************************************************************************)
(* Identities, mints and account addresses.                                *)
(***************************************************************************)
Alice == "alice"
TreasuryKey == "T1"
ReservePDA == "reservePDA"
USDC_MINT == "USDC"
PUSDC_MINT == "PUSDC"
Null == "null"
\* no address: the initial value of TreasuryService.treasuryUSDC
NoAddr == [mint |-> Null, owner |-> Null, prog |-> Null]

\* getAssociatedTokenAddress: a function of mint, owner and token program
Ata(mint, owner, prog) == [mint |-> mint, owner |-> owner, prog |-> prog]

UserUSDC == Ata(USDC_MINT, Alice, "token")
UserPUSDC == Ata(PUSDC_MINT, Alice, "token")
Vault == Ata(USDC_MINT, TreasuryKey, "token")
UserUSDC22 == Ata(USDC_MINT, Alice, "token2022")
ReserveATA == Ata(USDC_MINT, ReservePDA, "token2022")

\* operating-system processes that share the keystore file, and how many
\* constructions of TreasuryService each of them runs
NumHosts == 2
MaxBoots == 3
Hosts == 1 .. NumHosts

\* the n-th credential Keypair.generate() hands out (treasury.ts:25): every
\* generated credential is a new one
KeyName(n) == "T" \o ToString(n)

\* the token accounts of the model: the user's, the reserve vault of every
\* credential that can come to be the treasury authority, the PDA reserve
Addrs ==
  {UserUSDC, UserPUSDC, Vault, UserUSDC22, ReserveATA}
    \cup {Ata(USDC_MINT, KeyName(n), "token") : n \in 1 .. NumHosts}

(***************************************************************************)
(* Inputs.                                                                 *)
(***************************************************************************)
AmtMinus5 == Dbl(TRUE, <<5>>, 0)                       \* -5
AmtZero == Dbl(FALSE, <<>>, 0)                         \* 0
AmtSubAtomic == Dbl(FALSE, <<3929, 9657, 4732, 944>>, -73)   \* 0.0000001
AmtSmall == Dbl(FALSE, <<3821, 2948, 6976, 7378>>, -66)      \* 0.0001
AmtOneHalf == Dbl(FALSE, <<3>>, -1)                    \* 1.5
AmtLarge == Dbl(FALSE, <<4593, 8993, 85>>, -6)         \* 134217728.015625
AmtHuge == Dbl(FALSE, <<5625, 976>>, 11)               \* 20000000000

Amounts ==
  {AmtMinus5, AmtZero, AmtSubAtomic, AmtSmall, AmtOneHalf, AmtLarge, AmtHuge}

NoOpts == [hasMin |-> FALSE, min |-> AmtZero, hasMax |-> FALSE, max |-> AmtZero]
Bounded == [hasMin |-> TRUE, min |-> AmtSmall, hasMax |-> TRUE, max |-> AmtOneHalf]
OptsSet == {NoOpts, Bounded}

\* Alice's reserve-token balance when the model starts: 20,000,000,000 USDC
WhaleUSDC == <<0, 0, 0, 0, 2>>

\* amounts passed to canWithdraw: 0, 100 and 150 reserve-atomic units
CheckAmounts == {BigOf(0), BigOf(100), BigOf(150)}

\* the amount of one Token2022Manager.mint call: 1.5 pUSDC
ExternalMintAmount == BigOf(1500000000)

NumProcs == 2
MaxCalls == 2
MaxFaults == 1
Procs == 1 .. NumProcs

(***************************************************************************)
(* State.                                                                  *)
(***************************************************************************)
VARIABLES
  accounts,        \* ledger: address -> [exists, amount]
  supply,          \* ledger: total supply of the pegged mint
  keystore,        \* the credential in keypairs/treasury.json, or Null
  treasuryKeypair, \* TreasuryService.treasuryKeypair
  treasuryUSDC,    \* TreasuryService.treasuryUSDC (cached vault address)
  calls,           \* one depositUSDC / withdrawUSDC invocation per process
  started,         \* operations invoked so far
  faults,          \* ledger I/O failures so far
  external,        \* a mint outside deposit/withdraw bundles has landed
  lastTx,          \* instructions of the transaction that landed last
  boot,            \* per process: where its TreasuryService construction is
  issued,          \* credentials generated so far
  trip             \* the first confirmed deposit and what followed it

hostVars == <<boot, issued>>

vars == <<accounts, supply, keystore, treasuryKeypair, treasuryUSDC, calls,
          started, faults, external, lastTx, boot, issued, trip>>

\* TreasuryService.treasuryAuthority = treasuryKeypair.publicKey
treasuryAuthority == treasuryKeypair

IdleCall ==
  [op |-> "idle", pc |-> "idle", amount |-> AmtZero, opts |-> NoOpts,
   usdcAmount |-> SZero, pusdcAmount |-> SZero,
   creating |-> FALSE, vaultAddr |-> NoAddr,
   reserves |-> <<>>, vaultAtRead |-> <<>>, readOk |-> TRUE, gate |-> FALSE,
   passedUserBal |-> FALSE, userBalAtRead |-> <<>>, userReadOk |-> TRUE,
   ledgerOps |-> 0, submitted |-> 0, error |-> "none", bundle |-> <<>>,
   result |-> "none", supplyAtRead |-> <<>>,
   payer |-> Null, signer |-> Null]

Absent == [exists |-> FALSE, amount |-> <<>>]

\* a process that is not running, and one whose service was constructed
\* from the keystore file (treasury.ts:80-83)
\* pc: where the construction is; keypair: TreasuryService.treasuryKeypair;
\* vault: TreasuryService.treasuryUSDC; first: the credential the process
\* got at its first load; signer: the credential its last create-account
\* transaction was signed with; loads: keystore reads and generations since
\* the process started; boots: constructions the process has begun
DownHost ==
  [pc |-> "down", keypair |-> Null, vault |-> NoAddr, first |-> Null,
   signer |-> Null, outcome |-> "none", loads |-> 0, boots |-> 0]
UpHost(key) ==
  [DownHost EXCEPT !.pc = "up", !.keypair = key, !.first = key, !.loads = 1,
                   !.boots = 1]

NoTrip == [stage |-> "none", amount |-> AmtZero, vault0 |-> <<>>, supply0 |-> <<>>]

\* a deployment before its first use, and one after a confirmed deposit of
\* 0.0001 USDC (100 reserve-atomic units backing 100,000 pegged-atomic units)
FreshLedger ==
  [a \in Addrs |->
     IF a = UserUSDC THEN [exists |-> TRUE, amount |-> WhaleUSDC]
     ELSE IF a = UserUSDC22 THEN [exists |-> TRUE, amount |-> BigOf(1)]
     ELSE Absent]

FundedLedger ==
  [a \in Addrs |->
     IF a = UserUSDC THEN [exists |-> TRUE, amount |-> WhaleUSDC]
     ELSE IF a = UserUSDC22 THEN [exists |-> TRUE, amount |-> BigOf(1)]
     ELSE IF a = Vault THEN [exists |-> TRUE, amount |-> BigOf(100)]
     ELSE IF a = UserPUSDC THEN [exists |-> TRUE, amount |-> BigOf(100000)]
     ELSE Absent]

\* a deployment before its first use on which the user's pegged-token
\* account was opened beforehand (an associated account can be created by
\* anyone who pays for it, part_006:82-119)
OpenedLedger == [FreshLedger EXCEPT ![UserPUSDC] = [exists |-> TRUE, amount |-> <<>>]]

Init ==
  /\ \E kind \in {"fresh", "opened", "funded"} :
       /\ accounts = IF kind = "funded" THEN FundedLedger
                     ELSE IF kind = "opened" THEN OpenedLedger ELSE FreshLedger
       /\ supply = IF kind = "funded" THEN BigOf(100000) ELSE <<>>
  /\ keystore = TreasuryKey
  /\ treasuryKeypair = TreasuryKey
  /\ treasuryUSDC = NoAddr
  /\ calls = [p \in Procs |-> IdleCall]
  /\ started = 0
  /\ faults = 0
  /\ external = FALSE
  /\ lastTx = <<>>
  /\ boot = [h \in Hosts |-> IF h = 1 THEN UpHost(TreasuryKey) ELSE DownHost]
  /\ issued = 1
  /\ trip = NoTrip

(***************************************************************************)
(* Instructions and the bundle each operation returns.                     *)
(***************************************************************************)
Transfer(src, dst, authority, amount) ==
  [type |-> "transfer", src |-> src, dst |-> dst, authority |-> authority,
   amount |-> amount]
MintTo(dst, authority, amount) ==
  [type |-> "mintTo", src |-> NoAddr, dst |-> dst, authority |-> authority,
   amount |-> amount]
Burn(src, authority, amount) ==
  [type |-> "burn", src |-> src, dst |-> NoAddr, authority |-> authority,
   amount |-> amount]

\* a deposit bundle that mints before it transfers (the behaviour C13 rules
\* out)
DepositBundleMintFirst(c) ==
  << MintTo(UserPUSDC, treasuryAuthority, NumberOf(c.pusdcAmount)),
     Transfer(UserUSDC, c.vaultAddr, Alice, NumberOf(c.usdcAmount)) >>

\* treasury.ts:130-153
DepositBundle(c) ==
  << Transfer(UserUSDC, c.vaultAddr, Alice, NumberOf(c.usdcAmount)),
     MintTo(UserPUSDC, treasuryAuthority, NumberOf(c.pusdcAmount)) >>

\* a withdraw bundle that burns the reserve-atomic number of pegged units
\* instead of the pegged-atomic amount (the behaviour C22 rules out)
WithdrawBundleBurnsReserveUnits(c) ==
  << Burn(UserPUSDC, Alice, NumberOf(c.usdcAmount)),
     Transfer(c.vaultAddr, UserUSDC, treasuryAuthority, NumberOf(c.usdcAmount)) >>

\* a withdraw bundle whose burn names the Treasury Authority instead of the
\* account owner (the behaviour C14 rules out)
WithdrawBundleTreasuryBurns(c) ==
  << Burn(UserPUSDC, treasuryAuthority, NumberOf(c.pusdcAmount)),
     Transfer(c.vaultAddr, UserUSDC, treasuryAuthority, NumberOf(c.usdcAmount)) >>

\* treasury.ts:189-212
WithdrawBundle(c) ==
  << Burn(UserPUSDC, Alice, NumberOf(c.pusdcAmount)),
     Transfer(c.vaultAddr, UserUSDC, treasuryAuthority, NumberOf(c.usdcAmount)) >>

\* the signer keys the returned Transaction carries: every instruction is
\* built with an empty multiSigners list, so its authority is its one signer
\* (treasury.ts:136-138, 147-149, 195-197, 206-208); the Transaction is all
\* the call returns (treasury.ts:153, 212)
RequiredSigners(tx) == {tx[i].authority : i \in 1 .. Len(tx)}

(***************************************************************************)
(* Statement order of depositUSDC (treasury.ts:114-153) and withdrawUSDC   *)
(* (treasury.ts:171-212).  A call is suspended at the labels that wait on  *)
(* the ledger; "validate", "build" and a cached vault lookup run without   *)
(* suspension, in the continuation of the step before them.                *)
(***************************************************************************)
\* a statement order in which withdraw checks the vault before the user's
\* balance (the behaviour C12 rules out)
OrderReservesFirst(op) ==
  IF op = "deposit"
  THEN <<"validate", "userBal", "vault", "userUSDC", "userPUSDC", "build">>
  ELSE IF op = "canWithdraw" THEN <<"reservesInit", "reservesRead">>
  ELSE <<"validate", "reservesInit", "reservesRead", "userBal", "vault",
         "userUSDC", "userPUSDC", "build">>

\* a statement order that reads the user's balance before it validates the
\* amount (the behaviour C10 rules out)
OrderReadFirst(op) ==
  IF op = "deposit"
  THEN <<"userBal", "validate", "vault", "userUSDC", "userPUSDC", "build">>
  ELSE IF op = "canWithdraw" THEN <<"reservesInit", "reservesRead">>
  ELSE <<"userBal", "validate", "reservesInit", "reservesRead", "vault",
         "userUSDC", "userPUSDC", "build">>

Order(op) ==
  IF op = "deposit"
  THEN <<"validate", "userBal", "vault", "userUSDC", "userPUSDC", "build">>
  ELSE IF op = "canWithdraw" THEN <<"reservesInit", "reservesRead">>
  ELSE <<"validate", "userBal", "reservesInit", "reservesRead", "vault",
         "userUSDC", "userPUSDC", "build">>

NextPc(op, pc) ==
  LET o == Order(op)
      i == CHOOSE k \in 1 .. Len(o) : o[k] = pc
  IN  IF i = Len(o) THEN "done" ELSE o[i + 1]

VaultStages == {"vault", "reservesInit"}
AtaStages == {"vault", "reservesInit", "userUSDC", "userPUSDC"}

Fail(c, err) == [c EXCEPT !.pc = "done", !.error = err, !.creating = FALSE]

\* a validation with half-open bounds: an amount equal to bounds.min is
\* rejected (the behaviour C9 rules out)
ValidationErrorOpenMin(amount, opts) ==
  IF DblLeqZero(amount) THEN "NotPositive"
  ELSE IF opts.hasMin /\ ~DblLess(opts.min, amount) THEN "BelowMin"
  ELSE IF opts.hasMax /\ DblLess(opts.max, amount) THEN "AboveMax"
  ELSE "none"

\* treasury.ts:114-116 and 171-173
ValidationError(amount, opts) ==
  IF DblLeqZero(amount) THEN "NotPositive"
  ELSE IF opts.hasMin /\ DblLess(amount, opts.min) THEN "BelowMin"
  ELSE IF opts.hasMax /\ DblLess(opts.max, amount) THEN "AboveMax"
  ELSE "none"

\* treasury.ts:114-119 and 171-175
ValidateStep(c) ==
  LET err == ValidationError(c.amount, c.opts)
      u   == ToAtomic(c.amount, USDC_DECIMALS)
      pu  == ToAtomic(c.amount, PUSDC_DECIMALS)
  IN  IF err # "none" THEN Fail(c, err)
      ELSE IF ~u.ok \/ ~pu.ok THEN Fail(c, "RangeError")
      ELSE [c EXCEPT !.usdcAmount = u, !.pusdcAmount = pu,
                     !.pc = NextPc(c.op, "validate")]

\* treasury.ts:130-153 and 189-212
BuildStep(c) ==
  [c EXCEPT !.pc = "done",
            !.bundle = IF c.op = "deposit" THEN DepositBundle(c)
                       ELSE WithdrawBundle(c)]

\* initTreasuryUSDCAccount with the address cached (treasury.ts:89)
CachedVaultStep(c, cache) ==
  [c EXCEPT !.pc = NextPc(c.op, c.pc),
            !.vaultAddr = IF c.pc = "vault" THEN cache ELSE @]

\* run the call up to its next suspension point; `cache` is
\* TreasuryService.treasuryUSDC as the step leaves it
RECURSIVE RunSync(_, _)
RunSync(c, cache) ==
  IF c.pc = "validate" THEN RunSync(ValidateStep(c), cache)
  ELSE IF c.pc \in VaultStages /\ cache # NoAddr
  THEN RunSync(CachedVaultStep(c, cache), cache)
  ELSE IF c.pc = "build" THEN BuildStep(c)
  ELSE c

\* a ledger request either answers or fails; failures are bounded
OkSet == IF faults < MaxFaults THEN {TRUE, FALSE} ELSE {TRUE}
FaultCount(ok) == IF ok THEN faults ELSE faults + 1

(***************************************************************************)
(* depositUSDC / withdrawUSDC are invoked.                                 *)
(***************************************************************************)
Start(p) ==
  /\ calls[p].op = "idle"
  /\ started < MaxCalls
  /\ \E op \in {"deposit", "withdraw"}, amount \in Amounts, opts \in OptsSet :
       calls' = [calls EXCEPT ![p] =
                   RunSync([IdleCall EXCEPT !.op = op, !.pc = Order(op)[1],
                                            !.amount = amount, !.opts = opts],
                           treasuryUSDC)]
  /\ started' = started + 1
  /\ UNCHANGED <<accounts, supply, keystore, treasuryKeypair, hostVars, trip, treasuryUSDC,
                 faults, external, lastTx>>

\* canWithdraw(connection, amount) is invoked (treasury.ts:240)
StartCanWithdraw(p) ==
  /\ calls[p].op = "idle"
  /\ started < MaxCalls
  /\ \E amount \in CheckAmounts :
       calls' = [calls EXCEPT ![p] =
                   RunSync([IdleCall EXCEPT !.op = "canWithdraw",
                                            !.pc = Order("canWithdraw")[1],
                                            !.usdcAmount = SBig(FALSE, amount)],
                           treasuryUSDC)]
  /\ started' = started + 1
  /\ UNCHANGED <<accounts, supply, keystore, treasuryKeypair, hostVars, trip, treasuryUSDC,
                 faults, external, lastTx>>

\* a balance lookup that answers from the balances recorded when the service
\* started instead of asking the ledger (the behaviour C3 rules out)
GetTokenBalanceCached(ata, ok) ==
  IF ok /\ FundedLedger[ata].exists THEN FundedLedger[ata].amount ELSE <<>>

\* what the ledger holds at address a
LedgerBalance(a) == IF accounts[a].exists THEN accounts[a].amount ELSE <<>>

\* getTokenBalance (treasury.ts:61-70): a failed or rejected read yields 0
GetTokenBalance(ata, ok) ==
  IF ok /\ accounts[ata].exists THEN accounts[ata].amount ELSE <<>>

\* treasury.ts:121-122 and 177-178
ReadUserBal(p) ==
  LET c == calls[p]
  IN  /\ c.pc = "userBal"
      /\ \E ok \in OkSet :
           LET ata  == IF c.op = "deposit" THEN UserUSDC ELSE UserPUSDC
               bal  == GetTokenBalance(ata, ok)
               need == IF c.op = "deposit" THEN c.usdcAmount ELSE c.pusdcAmount
               c1   == [c EXCEPT !.ledgerOps = @ + 1,
                                 !.userBalAtRead = LedgerBalance(ata),
                                 !.userReadOk = ok]
           IN  /\ calls' = [calls EXCEPT ![p] =
                              IF BalLess(bal, need) THEN Fail(c1, "InsufficientBalance")
                              ELSE RunSync([c1 EXCEPT !.passedUserBal = TRUE,
                                                      !.pc = NextPc(c.op, "userBal")],
                                           treasuryUSDC)]
               /\ faults' = FaultCount(ok)
      /\ UNCHANGED <<accounts, supply, keystore, treasuryKeypair, hostVars, trip, treasuryUSDC,
                     started, external, lastTx>>

\* the account a getOrCreateATA call of the stage resolves, and its payer
StageAta(label) ==
  IF label \in VaultStages THEN Ata(USDC_MINT, treasuryAuthority, "token")
  ELSE IF label = "userUSDC" THEN Ata(USDC_MINT, Alice, "token")
  ELSE Ata(PUSDC_MINT, Alice, "token")

StagePayer(label) == IF label \in VaultStages THEN treasuryAuthority ELSE Alice

\* TreasuryService.treasuryUSDC after getOrCreateATA returned `ata` to the
\* stage at c.pc (treasury.ts:90)
CacheAfter(c, ata) == IF c.pc \in VaultStages THEN ata ELSE treasuryUSDC

\* getOrCreateATA returned `ata` to the stage at c.pc
FinishStage(c, ata) ==
  RunSync([c EXCEPT !.pc = NextPc(c.op, c.pc), !.creating = FALSE,
                    !.vaultAddr = IF c.pc = "vault" THEN ata ELSE @],
          CacheAfter(c, ata))

\* a lookup that goes on to create the account whether or not the ledger
\* already holds it (the behaviour C17 rules out)
AtaInfoAlwaysCreate(p) ==
  LET c == calls[p]
  IN  /\ c.pc \in AtaStages
      /\ ~c.creating
      /\ \E ok \in OkSet :
           LET c1 == [c EXCEPT !.ledgerOps = @ + 1]
           IN  /\ faults' = FaultCount(ok)
               /\ calls' = [calls EXCEPT ![p] =
                              IF ok THEN [c1 EXCEPT !.creating = TRUE]
                              ELSE Fail(c1, "LedgerError")]
      /\ UNCHANGED <<accounts, supply, keystore, treasuryKeypair, hostVars, trip, treasuryUSDC,
                     started, external, lastTx>>

\* getOrCreateATA, treasury.ts:41-43: derive the address, read the account
AtaInfo(p) ==
  LET c   == calls[p]
      ata == StageAta(c.pc)
  IN  /\ c.pc \in AtaStages
      /\ ~c.creating
      /\ \E ok \in OkSet :
           LET c1 == [c EXCEPT !.ledgerOps = @ + 1]
           IN  /\ faults' = FaultCount(ok)
               /\ IF ~ok
                  THEN /\ calls' = [calls EXCEPT ![p] = Fail(c1, "LedgerError")]
                       /\ UNCHANGED treasuryUSDC
                  ELSE IF accounts[ata].exists
                  THEN /\ calls' = [calls EXCEPT ![p] = FinishStage(c1, ata)]
                       /\ treasuryUSDC' = CacheAfter(c, ata)
                  ELSE /\ calls' = [calls EXCEPT ![p] = [c1 EXCEPT !.creating = TRUE]]
                       /\ UNCHANGED treasuryUSDC
      /\ UNCHANGED <<accounts, supply, keystore, treasuryKeypair, hostVars, trip, started,
                     external, lastTx>>

\* sendAndConfirmTransaction of the create-account transaction
\* (treasury.ts:44-53), signed by the credential read from the keystore file
CreateOutcome(ata, payer, ok) ==
  IF keystore = Null THEN "KeystoreError"
  ELSE IF payer # keystore THEN "SignatureError"
  ELSE IF ~ok THEN "LedgerError"
  ELSE IF accounts[ata].exists THEN "AlreadyInUse"
  ELSE "created"

\* the outcomes raised on the client before the transaction is sent
Unsent == {"KeystoreError", "SignatureError"}

CreateAccountIx(ata, payer) ==
  [type |-> "create", src |-> NoAddr, dst |-> ata, authority |-> payer,
   amount |-> SZero]

AtaCreate(p) ==
  LET c   == calls[p]
      ata == StageAta(c.pc)
  IN  /\ c.pc \in AtaStages
      /\ c.creating
      /\ \E ok \in OkSet :
           LET out == CreateOutcome(ata, StagePayer(c.pc), ok)
               c1  == [c EXCEPT !.ledgerOps = @ + 1,
                                !.submitted = IF out \in Unsent THEN @ ELSE @ + 1,
                                !.payer = StagePayer(c.pc),
                                !.signer = keystore]
           IN  /\ faults' = FaultCount(ok \/ out \in Unsent)
               /\ IF out = "created"
                  THEN /\ accounts' = [accounts EXCEPT ![ata] = [exists |-> TRUE, amount |-> <<>>]]
                       /\ lastTx' = <<CreateAccountIx(ata, StagePayer(c.pc))>>
                       /\ calls' = [calls EXCEPT ![p] = FinishStage(c1, ata)]
                       /\ treasuryUSDC' = CacheAfter(c, ata)
                  ELSE /\ calls' = [calls EXCEPT ![p] = Fail(c1, out)]
                       /\ UNCHANGED <<accounts, treasuryUSDC, lastTx>>
      /\ UNCHANGED <<supply, keystore, treasuryKeypair, hostVars, trip, started, external>>

\* getTreasuryReserves (treasury.ts:232-235), its balance read, and the
\* comparison at treasury.ts:181 (withdrawUSDC) or 242 (canWithdraw)
ReadReserves(p) ==
  LET c     == calls[p]
      vault == Ata(USDC_MINT, treasuryAuthority, "token")
  IN  /\ c.pc = "reservesRead"
      /\ \E ok \in OkSet :
           LET bal == GetTokenBalance(vault, ok)
               c1  == [c EXCEPT !.ledgerOps = @ + 1, !.reserves = bal,
                                !.vaultAtRead = LedgerBalance(vault),
                                !.readOk = ok, !.gate = TRUE]
           IN  /\ calls' = [calls EXCEPT ![p] =
                              IF c.op = "canWithdraw"
                              THEN [c1 EXCEPT !.pc = "done",
                                              !.supplyAtRead = supply,
                                              !.result = IF BalLess(bal, c.usdcAmount)
                                                         THEN "false" ELSE "true"]
                              ELSE IF BalLess(bal, c.usdcAmount)
                              THEN Fail(c1, "InsufficientReserves")
                              ELSE RunSync([c1 EXCEPT !.pc = NextPc(c.op, "reservesRead")],
                                           treasuryUSDC)]
               /\ faults' = FaultCount(ok)
      /\ UNCHANGED <<accounts, supply, keystore, treasuryKeypair, hostVars, trip, treasuryUSDC,
                     started, external, lastTx>>

\* the ledger never answers a read the call awaits: getTokenAccountBalance
\* (treasury.ts:67) and getAccountInfo (treasury.ts:42) are awaited with no
\* timeout and no cancellation, and no operation takes a timeout parameter
\* (treasury.ts:108-113, 165-170, 232, 240), so the call stays suspended
Awaited == {"userBal", "reservesRead"} \cup AtaStages

NoResponse(p) ==
  /\ calls[p].pc \in Awaited
  /\ ~calls[p].creating
  /\ faults < MaxFaults
  /\ faults' = faults + 1
  /\ calls' = [calls EXCEPT ![p].pc = "unanswered"]
  /\ UNCHANGED <<accounts, supply, keystore, treasuryKeypair, hostVars, trip,
                 treasuryUSDC, started, external, lastTx>>

(***************************************************************************)
(* The ledger executes one transaction: every instruction or none.         *)
(***************************************************************************)
FitsU64(amt) == amt.ok /\ ~amt.neg /\ BigLess(amt.mag, Two64)

\* the token program's check of one instruction against ledger state st
IxOk(st, ix) ==
  /\ FitsU64(ix.amount)
  /\ IF ix.type = "transfer"
     THEN /\ ix.src \in Addrs /\ ix.dst \in Addrs
          /\ st.accounts[ix.src].exists /\ st.accounts[ix.dst].exists
          /\ ix.authority = ix.src.owner
          /\ BigLeq(ix.amount.mag, st.accounts[ix.src].amount)
     ELSE IF ix.type = "mintTo"
     THEN /\ ix.dst \in Addrs
          /\ st.accounts[ix.dst].exists
          /\ ix.authority = TreasuryKey
          /\ BigLess(BigAdd(st.supply, ix.amount.mag), Two64)
     ELSE /\ ix.src \in Addrs
          /\ st.accounts[ix.src].exists
          /\ ix.authority = ix.src.owner
          /\ BigLeq(ix.amount.mag, st.accounts[ix.src].amount)

Credit(accts, a, amt) == [accts EXCEPT ![a].amount = BigAdd(@, amt)]
Debit(accts, a, amt) == [accts EXCEPT ![a].amount = BigSub(@, amt)]

IxApply(st, ix) ==
  IF ix.type = "transfer"
  THEN [st EXCEPT !.accounts = Credit(Debit(@, ix.src, ix.amount.mag), ix.dst, ix.amount.mag)]
  ELSE IF ix.type = "mintTo"
  THEN [st EXCEPT !.accounts = Credit(@, ix.dst, ix.amount.mag),
                  !.supply = BigAdd(@, ix.amount.mag)]
  ELSE [st EXCEPT !.accounts = Debit(@, ix.src, ix.amount.mag),
                  !.supply = BigSub(@, ix.amount.mag)]

RECURSIVE Execute(_, _, _)
Execute(st, tx, i) ==
  IF i > Len(tx) THEN st
  ELSE IF ~st.ok THEN st
  ELSE IF IxOk(st, tx[i]) THEN Execute(IxApply(st, tx[i]), tx, i + 1)
  ELSE [st EXCEPT !.ok = FALSE]

Landed(tx) == Execute([ok |-> TRUE, accounts |-> accounts, supply |-> supply], tx, 1)

\* bookkeeping for the round trip: the first deposit bundle that lands, with
\* the vault balance and the supply before it; a withdraw bundle of the same
\* amount that lands next closes the trip; any other balance or supply change
\* after the deposit voids it
TripOther == IF trip.stage = "none" THEN trip ELSE [trip EXCEPT !.stage = "void"]

TripAfter(c) ==
  IF trip.stage = "none" /\ c.op = "deposit"
  THEN [stage |-> "deposited", amount |-> c.amount,
        vault0 |-> LedgerBalance(Vault), supply0 |-> supply]
  ELSE IF trip.stage = "deposited" /\ c.op = "withdraw" /\ c.amount = trip.amount
  THEN [trip EXCEPT !.stage = "returned"]
  ELSE TripOther

\* the caller signs and submits the returned bundle; the ledger confirms it
\* or rejects it whole
Confirm(p) ==
  LET c   == calls[p]
      res == Landed(c.bundle)
  IN  /\ c.pc = "done"
      /\ c.bundle # <<>>
      /\ calls' = [calls EXCEPT ![p] = IdleCall]
      /\ IF res.ok
         THEN /\ accounts' = res.accounts
              /\ supply' = res.supply
              /\ lastTx' = c.bundle
              /\ trip' = TripAfter(c)
         ELSE UNCHANGED <<accounts, supply, lastTx, trip>>
      /\ UNCHANGED <<keystore, treasuryKeypair, hostVars, treasuryUSDC, started, faults,
                     external>>

\* the caller takes the result (an error, or a bundle it does not submit)
Drop(p) ==
  /\ calls[p].pc = "done"
  /\ calls' = [calls EXCEPT ![p] = IdleCall]
  /\ UNCHANGED <<accounts, supply, keystore, treasuryKeypair, hostVars, trip, treasuryUSDC,
                 started, faults, external, lastTx>>

(***************************************************************************)
(* Token2022Manager.mint (part_006:124-165): the mint authority mints      *)
(* pegged tokens directly, outside any deposit.                            *)
(***************************************************************************)
ExternalMint ==
  LET tx  == <<MintTo(UserPUSDC, TreasuryKey, SBig(FALSE, ExternalMintAmount))>>
      res == Landed(tx)
  IN  /\ started < MaxCalls
      /\ started' = started + 1
      /\ res.ok
      /\ accounts' = res.accounts
      /\ supply' = res.supply
      /\ lastTx' = tx
      /\ external' = TRUE
      /\ trip' = TripOther
      /\ UNCHANGED <<keystore, treasuryKeypair, hostVars, treasuryUSDC, calls, faults>>

(***************************************************************************)
(* ReserveManager (part_006:292-354).                                      *)
(***************************************************************************)
\* initReserve (part_006:301-320): create the reserve vault of the PDA
RMInitReserve ==
  /\ started < MaxCalls
  /\ started' = started + 1
  /\ ~accounts[ReserveATA].exists
  /\ accounts' = [accounts EXCEPT ![ReserveATA] = [exists |-> TRUE, amount |-> <<>>]]
  /\ lastTx' = <<CreateAccountIx(ReserveATA, "payer")>>
  /\ UNCHANGED <<supply, keystore, treasuryKeypair, hostVars, trip, treasuryUSDC, calls, faults,
                 external>>

\* depositUSDC (part_006:322-343): one transfer into the reserve vault,
\* submitted and confirmed by the call itself
RMDepositTx(amount) ==
  <<Transfer(UserUSDC22, ReserveATA, Alice, SBig(FALSE, amount))>>

RMDeposit ==
  LET tx  == RMDepositTx(BigOf(1))
      res == Landed(tx)
  IN  /\ started < MaxCalls
      /\ started' = started + 1
      /\ res.ok
      /\ accounts' = res.accounts
      /\ lastTx' = tx
      /\ trip' = TripOther
      /\ UNCHANGED <<supply, keystore, treasuryKeypair, hostVars, treasuryUSDC, calls,
                     faults, external>>

Next ==
  \/ \E p \in Procs :
       \/ Start(p)
       \/ StartCanWithdraw(p)
       \/ ReadUserBal(p)
       \/ AtaInfo(p)
       \/ AtaCreate(p)
       \/ ReadReserves(p)
       \/ NoResponse(p)
       \/ Confirm(p)
       \/ Drop(p)
  \/ ExternalMint
  \/ RMInitReserve
  \/ RMDeposit

Spec == Init /\ [][Next]_vars

(***************************************************************************)
(* Construction of TreasuryService in processes that share the keystore    *)
(* file (treasury.ts:14-30, 80-83), and the keystore read of account       *)
(* resolution (treasury.ts:53).  Each file-system call is one step.        *)
(***************************************************************************)
KeyInit ==
  /\ \E present \in BOOLEAN :
       /\ keystore = IF present THEN TreasuryKey ELSE Null
       /\ issued = IF present THEN 1 ELSE 0
  /\ accounts = FreshLedger
  /\ supply = <<>>
  /\ treasuryKeypair = Null
  /\ treasuryUSDC = NoAddr
  /\ calls = [p \in Procs |-> IdleCall]
  /\ started = 0
  /\ faults = 0
  /\ external = FALSE
  /\ lastTx = <<>>
  /\ boot = [h \in Hosts |-> DownHost]
  /\ trip = NoTrip

ledgerVars == <<accounts, supply, treasuryKeypair, treasuryUSDC, calls, started,
                faults, external, lastTx, trip>>

\* the credential loaded first is the one the process started with
FirstOf(b, key) == IF b.first = Null THEN key ELSE b.first

\* new TreasuryService() enters loadOrGenerateTreasuryKeypair:
\* fs.existsSync(TREASURY_KEYPAIR_PATH) (treasury.ts:81, 20); a process that
\* is up may construct another instance
Construct(h) ==
  /\ boot[h].pc \in {"down", "up"}
  /\ boot[h].boots < MaxBoots
  /\ boot' = [boot EXCEPT ![h] =
               [@ EXCEPT !.pc = IF keystore # Null THEN "read" ELSE "generate",
                         !.boots = @ + 1]]
  /\ UNCHANGED <<keystore, issued, ledgerVars>>

\* readFileSync, JSON.parse, Keypair.fromSecretKey (treasury.ts:21-23), then
\* the constructor's assignments (treasury.ts:81-82)
LoadFile(h) ==
  /\ boot[h].pc = "read"
  /\ boot' = [boot EXCEPT ![h] =
               [@ EXCEPT !.pc = "up", !.keypair = keystore, !.vault = NoAddr,
                         !.first = FirstOf(boot[h], keystore),
                         !.loads = @ + 1]]
  /\ UNCHANGED <<keystore, issued, ledgerVars>>

\* Keypair.generate(), mkdirSync, writeFileSync (treasury.ts:25-28), then the
\* constructor's assignments (treasury.ts:81-82)
GenerateAndPersist(h) ==
  LET kp == KeyName(issued + 1)
  IN  /\ boot[h].pc = "generate"
      /\ issued' = issued + 1
      /\ keystore' = kp
      /\ boot' = [boot EXCEPT ![h] =
                   [@ EXCEPT !.pc = "up", !.keypair = kp, !.vault = NoAddr,
                             !.first = FirstOf(boot[h], kp),
                             !.loads = @ + 1]]
      /\ UNCHANGED ledgerVars

\* initTreasuryUSDCAccount of the process's service (treasury.ts:88-97) with
\* getOrCreateATA (treasury.ts:41-55): when the vault account is absent, the
\* create-account transaction is signed with the credential read from the
\* keystore file at that moment
ResolveVault(h) ==
  LET b   == boot[h]
      ata == Ata(USDC_MINT, b.keypair, "token")
  IN  /\ b.pc = "up"
      /\ b.vault = NoAddr
      /\ b.outcome = "none"
      /\ IF accounts[ata].exists
         THEN /\ boot' = [boot EXCEPT ![h] = [@ EXCEPT !.vault = ata]]
              /\ UNCHANGED <<accounts, lastTx, faults>>
         ELSE \E ok \in OkSet :
                LET out == CreateOutcome(ata, b.keypair, ok)
                IN  /\ faults' = FaultCount(ok \/ out \in Unsent)
                    /\ boot' = [boot EXCEPT ![h] =
                                 [@ EXCEPT !.signer = keystore, !.loads = @ + 1,
                                           !.outcome = out,
                                           !.vault = IF out = "created" THEN ata ELSE @]]
                    /\ IF out = "created"
                       THEN /\ accounts' = [accounts EXCEPT ![ata] = [exists |-> TRUE, amount |-> <<>>]]
                            /\ lastTx' = <<CreateAccountIx(ata, b.keypair)>>
                       ELSE UNCHANGED <<accounts, lastTx>>
      /\ UNCHANGED <<keystore, issued, supply, treasuryKeypair, treasuryUSDC, calls,
                     started, external, trip>>

\* the process exits; its in-memory service is gone, the keystore file stays
Restart(h) ==
  /\ boot[h].pc = "up"
  /\ boot' = [boot EXCEPT ![h] = [DownHost EXCEPT !.boots = boot[h].boots]]
  /\ UNCHANGED <<keystore, issued, ledgerVars>>

KeyNext ==
  \E h \in Hosts :
    \/ Construct(h)
    \/ LoadFile(h)
    \/ GenerateAndPersist(h)
    \/ ResolveVault(h)
    \/ Restart(h)

KeySpec == KeyInit /\ [][KeyNext]_vars

(***************************************************************************)
(* Notions the properties below are stated in.                             *)
(***************************************************************************)
Multiplier == Pow10(PUSDC_DECIMALS - USDC_DECIMALS)

\* c is a deposit or withdraw call in progress or finished
Started(c) == c.op \in {"deposit", "withdraw"}

ValidationErrors == {"NotPositive", "BelowMin", "AboveMax", "RangeError"}

\* the exact value of the amount is a whole number of 10^-d units
ExactMultiple(amount, d) ==
  /\ amount.kind = "finite"
  /\ IF amount.e >= 0 THEN TRUE
     ELSE LET s == ShiftRight(BigMulPow10(amount.m, d), 0 - amount.e, FALSE, FALSE)
          IN  ~s.guard /\ ~s.sticky

\* the product amount * 10 ** d, as the program computes it, is an integer
ProductIsInteger(amount, d) ==
  LET x == DblMulPow10(amount, d)
  IN  /\ x.kind = "finite"
      /\ IF x.e >= 0 THEN TRUE
         ELSE LET s == ShiftRight(x.m, 0 - x.e, FALSE, FALSE)
              IN  ~s.guard /\ ~s.sticky

(***************************************************************************)
(* C1.  Peg invariant: as long as only bundles built by deposit and        *)
(* withdraw have landed (no external mint), the pegged supply equals the   *)
(* reserve vault balance times 1000.                                       *)
(***************************************************************************)
C1_PegInvariant ==
  ~external => supply = BigMulSmall(LedgerBalance(Vault), Multiplier)

(***************************************************************************)
(* C2.  Solvency: as long as only bundles built by deposit and withdraw    *)
(* have landed, the pegged supply never exceeds the reserve vault balance  *)
(* times 1000.                                                             *)
(***************************************************************************)
C2_Solvency ==
  ~external => BigLeq(supply, BigMulSmall(LedgerBalance(Vault), Multiplier))
(***************************************************************************)
(* C3.  Solvency gate: a withdraw whose user balance check passed and      *)
(* whose required reserve-atomic amount exceeds what the vault held when    *)
(* the call read it ends with the insufficient-reserves error and no       *)
(* bundle; a withdraw bundle exists only after that comparison passed; and *)
(* the balance compared is the one the ledger held at the read of this     *)
(* same call (0 when the read itself failed), never an older value.        *)
(***************************************************************************)
C3_SolvencyGate ==
  \A p \in Procs :
    LET c == calls[p]
    IN  c.op = "withdraw" =>
          /\ (c.gate /\ BalLess(c.vaultAtRead, c.usdcAmount)
                => /\ c.pc = "done"
                   /\ c.error = "InsufficientReserves"
                   /\ c.bundle = <<>>)
          /\ (c.gate => /\ c.passedUserBal
                        /\ c.reserves = IF c.readOk THEN c.vaultAtRead ELSE <<>>)
          /\ (c.bundle # <<>> => c.gate /\ ~BalLess(c.vaultAtRead, c.usdcAmount))

\* a withdraw of 1.5 by a user who holds enough pegged tokens, against a
\* vault whose non-zero balance is too small, was rejected at the gate
C3_Witness ==
  \E p \in Procs :
    LET c == calls[p]
    IN  /\ c.op = "withdraw" /\ c.passedUserBal /\ c.gate /\ c.readOk
        /\ c.vaultAtRead # <<>>
        /\ BalLess(c.vaultAtRead, c.usdcAmount)
        /\ c.error = "InsufficientReserves" /\ c.bundle = <<>>

(***************************************************************************)
(* C4.  Serialized solvency checks: the withdraw calls that have passed    *)
(* the solvency check and hold a returned bundle never require, together,  *)
(* more reserve-atomic units than the vault holds.                         *)
(***************************************************************************)
C4_SerializedWithdrawals ==
  \A p, q \in Procs :
    LET c == calls[p]
        d == calls[q]
    IN  (/\ p # q
         /\ c.op = "withdraw" /\ c.bundle # <<>>
         /\ d.op = "withdraw" /\ d.bundle # <<>>)
        => BigLeq(BigAdd(c.usdcAmount.mag, d.usdcAmount.mag), LedgerBalance(Vault))

(***************************************************************************)
(* C5.  Atomic custody and supply movement: a landed transaction that      *)
(* transfers reserve tokens into a reserve vault also mints, and one that  *)
(* transfers reserve tokens out of a reserve vault also burns.             *)
(***************************************************************************)
ReserveVaults == {Vault, ReserveATA}

HasIx(tx, type) == \E j \in 1 .. Len(tx) : tx[j].type = type

C5_AtomicCustody ==
  \A i \in 1 .. Len(lastTx) :
    lastTx[i].type = "transfer" =>
      /\ (lastTx[i].dst \in ReserveVaults => HasIx(lastTx, "mintTo"))
      /\ (lastTx[i].src \in ReserveVaults => HasIx(lastTx, "burn"))

(***************************************************************************)
(* C6.  No rounding: a call whose amount is positive and whose product     *)
(* amount * 10^6 is not an integer never returns a bundle.                 *)
(***************************************************************************)
C6_NoRounding ==
  \A p \in Procs :
    LET c == calls[p]
    IN  (/\ Started(c)
         /\ ~DblLeqZero(c.amount)
         /\ ~ProductIsInteger(c.amount, USDC_DECIMALS))
        => c.bundle = <<>>

(***************************************************************************)
(* C7.  Exact cross-precision conversion: for every accepted amount > 0    *)
(* that is an exact multiple of 10^-6, the pegged-atomic amount of the     *)
(* call equals its reserve-atomic amount times 1000.                       *)
(***************************************************************************)
C7_ExactPegged ==
  \A p \in Procs :
    LET c == calls[p]
    IN  (/\ Started(c)
         /\ c.error \notin ValidationErrors
         /\ ~DblLeqZero(c.amount)
         /\ ExactMultiple(c.amount, USDC_DECIMALS))
        => /\ ~c.pusdcAmount.neg /\ ~c.usdcAmount.neg
           /\ c.pusdcAmount.mag = BigMulSmall(c.usdcAmount.mag, Multiplier)

(***************************************************************************)
(* C8.  Exact and overflow-free: the amounts in the instructions of a      *)
(* returned bundle are the integers the call used in its balance and       *)
(* solvency checks, and each fits an unsigned 64-bit field.                *)
(***************************************************************************)
CheckedAmount(c, ix) ==
  IF ix.type = "transfer" THEN c.usdcAmount ELSE c.pusdcAmount

C8_ExactAndFits ==
  \A p \in Procs :
    LET c == calls[p]
    IN  \A i \in 1 .. Len(c.bundle) :
          /\ c.bundle[i].amount = CheckedAmount(c, c.bundle[i])
          /\ FitsU64(c.bundle[i].amount)

(***************************************************************************)
(* C9.  Amount validation: a call with amount <= 0 is rejected; with       *)
(* bounds supplied, a call with amount < bounds.min or amount > bounds.max *)
(* is rejected; a positive amount inside the closed interval (the bounds   *)
(* themselves included) is not rejected by validation; a rejected call     *)
(* holds no bundle.                                                        *)
(***************************************************************************)
BoundErrors == {"NotPositive", "BelowMin", "AboveMax"}

OutOfBounds(c) ==
  \/ DblLeqZero(c.amount)
  \/ c.opts.hasMin /\ DblLess(c.amount, c.opts.min)
  \/ c.opts.hasMax /\ DblLess(c.opts.max, c.amount)

C9_AmountValidation ==
  \A p \in Procs :
    LET c == calls[p]
    IN  Started(c) =>
          /\ (OutOfBounds(c)
                => c.pc = "done" /\ c.error \in BoundErrors /\ c.bundle = <<>>)
          /\ (DblLeqZero(c.amount) => c.error = "NotPositive")
          /\ (~OutOfBounds(c) => c.error \notin BoundErrors)
          /\ (c.amount \in {AmtMinus5, AmtZero} => c.error = "NotPositive")
          /\ (c.opts = Bounded /\ c.amount \in {AmtSmall, AmtOneHalf}
                => c.error \notin BoundErrors)

\* one call was rejected for its bounds while another, whose amount equals
\* bounds.min, went on past validation
C9_Witness ==
  \E p, q \in Procs :
    /\ calls[p].op # "idle" /\ calls[p].error \in {"BelowMin", "AboveMax"}
    /\ calls[q].opts.hasMin /\ calls[q].amount = calls[q].opts.min
    /\ calls[q].op # "idle" /\ calls[q].passedUserBal

(***************************************************************************)
(* C10.  Fail fast: a call that ended in a validation error performed no   *)
(* ledger read, created no account and submitted nothing.                  *)
(***************************************************************************)
C10_FailFast ==
  \A p \in Procs :
    LET c == calls[p]
    IN  (c.pc = "done" /\ c.error \in ValidationErrors)
        => c.ledgerOps = 0 /\ c.submitted = 0 /\ c.bundle = <<>>

\* a call was rejected by validation while the other call of the run had
\* already interacted with the ledger
C10_Witness ==
  \E p, q \in Procs :
    /\ calls[p].pc = "done" /\ calls[p].error \in ValidationErrors
    /\ calls[p].ledgerOps = 0
    /\ calls[q].ledgerOps > 0
(***************************************************************************)
(* C11.  Deposit balance gate: a deposit ends with the insufficient-       *)
(* balance error and no bundle whenever the user's reserve-token balance   *)
(* at the read of the call (0 without an account) is below the required    *)
(* reserve-atomic amount, and never ends with that error when that balance *)
(* is at least the required amount.                                        *)
(***************************************************************************)
ReachedUserBal(c) == c.ledgerOps > 0

C11_DepositBalanceGate ==
  \A p \in Procs :
    LET c == calls[p]
    IN  (c.op = "deposit" /\ ReachedUserBal(c)) =>
          /\ (BalLess(c.userBalAtRead, c.usdcAmount)
                => /\ c.pc = "done"
                   /\ c.error = "InsufficientBalance"
                   /\ c.bundle = <<>>)
          /\ (c.error = "InsufficientBalance"
                => BalLess(c.userBalAtRead, c.usdcAmount))
(***************************************************************************)
(* C12.  Withdraw balance gate and its order: a withdraw ends with the     *)
(* insufficient-balance error and no bundle whenever the user's pegged     *)
(* balance at the read of the call is below the required pegged-atomic     *)
(* amount, whatever the vault holds; the vault is compared only after that *)
(* check passed, so a call short on both sides reports the user's balance. *)
(***************************************************************************)
C12_WithdrawBalanceGate ==
  \A p \in Procs :
    LET c == calls[p]
    IN  (c.op = "withdraw" /\ ReachedUserBal(c)) =>
          /\ (BalLess(c.userBalAtRead, c.pusdcAmount)
                => /\ c.pc = "done"
                   /\ c.error = "InsufficientBalance"
                   /\ c.bundle = <<>>
                   /\ ~c.gate)
          /\ (c.gate \/ c.error = "InsufficientReserves"
                => c.passedUserBal /\ ~BalLess(c.userBalAtRead, c.pusdcAmount))

\* a withdraw short on both sides (user balance and vault) was rejected for
\* the user's balance
C12_Witness ==
  \E p \in Procs :
    LET c == calls[p]
    IN  /\ c.op = "withdraw" /\ c.userReadOk
        /\ BalLess(c.userBalAtRead, c.pusdcAmount)
        /\ BalLess(LedgerBalance(Vault), c.usdcAmount)
        /\ c.error = "InsufficientBalance"
(***************************************************************************)
(* C13.  Every bundle returned by deposit is exactly: a transfer of the    *)
(* reserve-atomic amount from the user's reserve account to the reserve    *)
(* vault with the user as authority, then a mint of the pegged-atomic      *)
(* amount to the user's pegged account with the Treasury Authority as      *)
(* authority.                                                              *)
(***************************************************************************)
C13_DepositBundleShape ==
  \A p \in Procs :
    LET c == calls[p]
    IN  (c.op = "deposit" /\ c.bundle # <<>>) =>
          /\ Len(c.bundle) = 2
          /\ c.bundle[1] = [type |-> "transfer", src |-> UserUSDC, dst |-> Vault,
                            authority |-> Alice, amount |-> c.usdcAmount]
          /\ c.bundle[2] = [type |-> "mintTo", src |-> NoAddr, dst |-> UserPUSDC,
                            authority |-> treasuryAuthority,
                            amount |-> c.pusdcAmount]

\* a deposit of 1.5 returned its bundle
C13_Witness ==
  \E p \in Procs :
    /\ calls[p].op = "deposit" /\ calls[p].amount = AmtOneHalf
    /\ calls[p].pc = "done" /\ Len(calls[p].bundle) = 2

(***************************************************************************)
(* C14.  Every bundle returned by withdraw is exactly: a burn of the       *)
(* pegged-atomic amount from the user's pegged account with the user (the  *)
(* owner, not the Treasury Authority) as authority, then a transfer of the *)
(* reserve-atomic amount from the reserve vault to the user's reserve      *)
(* account with the Treasury Authority as authority.                       *)
(***************************************************************************)
C14_WithdrawBundleShape ==
  \A p \in Procs :
    LET c == calls[p]
    IN  (c.op = "withdraw" /\ c.bundle # <<>>) =>
          /\ Len(c.bundle) = 2
          /\ c.bundle[1] = [type |-> "burn", src |-> UserPUSDC, dst |-> NoAddr,
                            authority |-> Alice, amount |-> c.pusdcAmount]
          /\ c.bundle[1].authority # treasuryAuthority
          /\ c.bundle[2] = [type |-> "transfer", src |-> Vault, dst |-> UserUSDC,
                            authority |-> treasuryAuthority,
                            amount |-> c.usdcAmount]

\* a withdraw of 0.0001 returned its bundle
C14_Witness ==
  \E p \in Procs :
    /\ calls[p].op = "withdraw" /\ calls[p].amount = AmtSmall
    /\ calls[p].pc = "done" /\ Len(calls[p].bundle) = 2
(***************************************************************************)
(* C15.  Signer set: what a successful deposit or withdraw returns with    *)
(* its bundle names exactly the Treasury Authority as required signer; the *)
(* user is not a member.                                                   *)
(***************************************************************************)
C15_SignerSet ==
  \A p \in Procs :
    LET c == calls[p]
    IN  c.bundle # <<>> => RequiredSigners(c.bundle) = {treasuryAuthority}
(***************************************************************************)
(* C16.  Pure builders: no step of a deposit or withdraw call submits a    *)
(* transaction or changes ledger state (accounts, balances, supply); the   *)
(* ledger changes only when a returned bundle is submitted after the call, *)
(* or by an operation outside deposit and withdraw.                        *)
(***************************************************************************)
InCall(c) == c.op \in {"deposit", "withdraw"} /\ c.pc # "done"

C16_PureBuilders ==
  [][\A p \in Procs :
       (InCall(calls[p]) /\ calls'[p] # calls[p])
         => /\ accounts' = accounts
            /\ supply' = supply
            /\ calls'[p].submitted = 0]_vars
(***************************************************************************)
(* C17.  Account resolution is deterministic and idempotent: a resolve     *)
(* step that finds its account on the ledger returns the address derived   *)
(* from (token, owner), submits no create-account transaction and leaves   *)
(* the ledger unchanged; the cached vault address is never anything but    *)
(* the address derived from (reserve token, Treasury Authority).           *)
(***************************************************************************)
C17_ResolveIdempotent ==
  [][/\ treasuryUSDC' \in {NoAddr, Ata(USDC_MINT, treasuryAuthority, "token")}
     /\ \A p \in Procs :
          LET c == calls[p]
          IN  (/\ c.pc \in AtaStages /\ ~c.creating
               /\ accounts[StageAta(c.pc)].exists
               /\ calls'[p] # c
               /\ calls'[p].error # "LedgerError"
               /\ calls'[p].pc # "unanswered")
              => /\ ~calls'[p].creating
                 /\ calls'[p].submitted = c.submitted
                 /\ accounts' = accounts /\ lastTx' = lastTx
                 /\ c.pc \in VaultStages => treasuryUSDC' = StageAta(c.pc)
                 /\ c.pc = "vault" => calls'[p].vaultAddr = Vault]_vars

\* a call resolved the vault and both user accounts, all present on the
\* ledger, and returned its bundle without submitting anything
C17_Witness ==
  \E p \in Procs :
    /\ calls[p].bundle # <<>>
    /\ calls[p].submitted = 0
    /\ calls[p].vaultAddr = Vault
    /\ treasuryUSDC = Vault

(***************************************************************************)
(* C18.  Get-or-create race: a resolve call whose creation is rejected     *)
(* because the account already exists absorbs that error and returns the   *)
(* address, so no deposit or withdraw call ends with the account-already-  *)
(* exists error.                                                           *)
(***************************************************************************)
C18_RaceAbsorbed ==
  \A p \in Procs :
    calls[p].op \in {"deposit", "withdraw"} => calls[p].error # "AlreadyInUse"
(***************************************************************************)
(* C19.  Ledger read failures are surfaced: a deposit or withdraw whose    *)
(* balance read (the user's balance, or the vault balance) failed ends     *)
(* with that ledger error; the failure is never taken for a zero balance   *)
(* nor turned into an insufficient-balance or insufficient-reserves error. *)
(***************************************************************************)
C19_ReadFailureSurfaced ==
  \A p \in Procs :
    LET c == calls[p]
    IN  (/\ c.op \in {"deposit", "withdraw"}
         /\ (ReachedUserBal(c) /\ ~c.userReadOk) \/ (c.gate /\ ~c.readOk))
        => c.pc = "done" /\ c.error = "LedgerError"
(***************************************************************************)
(* C20.  Invariant checker: the check the service offers against its       *)
(* reserves answers true if and only if the pegged supply equals the       *)
(* reserve vault balance times 10^(9-6), both as the ledger held them when *)
(* the check read it.                                                      *)
(***************************************************************************)
C20_PegCheck ==
  \A p \in Procs :
    LET c == calls[p]
    IN  (c.op = "canWithdraw" /\ c.result # "none") =>
          (c.result = "true"
             <=> c.supplyAtRead = BigMulSmall(c.vaultAtRead, Multiplier))
(***************************************************************************)
(* C21.  The invariant check and the reserve reads it relies on perform no *)
(* mutation: no step of a check call creates an account, changes a balance *)
(* or the supply, or submits a transaction, also when the vault account    *)
(* does not exist yet.                                                     *)
(***************************************************************************)
C21_CheckIsReadOnly ==
  [][\A p \in Procs :
       (calls[p].op = "canWithdraw" /\ calls'[p] # calls[p])
         => /\ accounts' = accounts
            /\ supply' = supply
            /\ calls'[p].submitted = 0]_vars

(***************************************************************************)
(* C22.  Round trip: when the bundle of deposit(X) has landed and the       *)
(* bundle of withdraw(X) for the same user lands next, with no other       *)
(* supply or reserve change in between, the vault balance and the pegged   *)
(* supply are back at their values before the deposit, so the peg holds    *)
(* afterwards whenever it held before.                                     *)
(***************************************************************************)
Pegged(vault, sup) == sup = BigMulSmall(vault, Multiplier)

C22_RoundTrip ==
  trip.stage = "returned"
    => /\ LedgerBalance(Vault) = trip.vault0
       /\ supply = trip.supply0
       /\ Pegged(trip.vault0, trip.supply0) => Pegged(LedgerBalance(Vault), supply)

C22_Witness ==
  /\ trip.stage = "returned"
  /\ trip.amount = AmtSmall
  /\ lastTx # <<>> /\ lastTx[1].type = "burn"

(***************************************************************************)
(* C23.  Load-or-create of the Treasury Authority: a load that finds the   *)
(* keystore file returns the credential stored in it and does not write    *)
(* the file; the file is written only while it is absent; so once a        *)
(* credential is persisted the file keeps it, and every process that       *)
(* restarts afterwards comes up with that same identity.                   *)
(***************************************************************************)
C23_LoadOrCreate ==
  [][/\ \A h \in Hosts :
          (boot[h].pc = "read" /\ boot'[h].pc = "up")
            => boot'[h].keypair = keystore /\ keystore' = keystore
     /\ keystore' # keystore => keystore = Null
     /\ \A h \in Hosts :
          (keystore # Null /\ boot[h].pc = "down" /\ boot'[h].pc # "down")
            => boot'[h].pc = "read"]_vars

(***************************************************************************)
(* C24.  Single load of the authority: within one process the credential   *)
(* is loaded once; after the first load nothing the process does reads the *)
(* keystore again or generates a credential, so the constructed service    *)
(* holds, and every create-account transaction is signed with, the         *)
(* credential the process loaded at startup.                               *)
(***************************************************************************)
C24_SingleLoad ==
  \A h \in Hosts :
    /\ boot[h].loads <= 1
    /\ boot[h].pc = "up" => boot[h].keypair = boot[h].first
    /\ boot[h].signer # Null => boot[h].signer = boot[h].first

(***************************************************************************)
(* C25.  Bounded waiting: every started deposit, withdraw or balance read  *)
(* completes; a call is never left waiting on a ledger request for good:   *)
(* until it has ended (with its result or an error such as LedgerTimeout)  *)
(* there is a step that takes it further.                                  *)
(***************************************************************************)
CallStep(p) == ReadUserBal(p) \/ AtaInfo(p) \/ AtaCreate(p) \/ ReadReserves(p)

C25_BoundedWaiting ==
  \A p \in Procs :
    (calls[p].op # "idle" /\ calls[p].pc # "done") => ENABLED CallStep(p)

(***************************************************************************)
(* C26.  A withdraw that is rejected for the user's balance or for the     *)
(* vault's reserves has submitted no account-creation transaction:         *)
(* accounts are created only after both checks have passed.                *)
(***************************************************************************)
C26_NoCreationBeforeChecks ==
  \A p \in Procs :
    (/\ calls[p].op = "withdraw"
     /\ calls[p].error \in {"InsufficientBalance", "InsufficientReserves"})
      => calls[p].submitted = 0

(***************************************************************************)
(* C27.  Every create-account transaction of account resolution is signed  *)
(* by the payer its instruction names as funding account: the signer       *)
(* handed to submission is the payer's credential (in deposit and withdraw *)
(* the payer of the user's accounts is the user).                          *)
(***************************************************************************)
C27_PayerSigns ==
  \A p \in Procs : calls[p].payer # Null => calls[p].signer = calls[p].payer

(***************************************************************************)
(* C28.  One vault: the account every deposit operation transfers reserve  *)
(* tokens into is the account whose balance the solvency check and         *)
(* getTreasuryReserves read and that withdraw bundles pay out of, so no    *)
(* deposited reserve unit is held where it is not counted as backing.      *)
(***************************************************************************)
ReadVault == Ata(USDC_MINT, treasuryAuthority, "token")

C28_OneVault ==
  /\ \A j \in 1 .. Len(lastTx) :
       (lastTx[j].type = "transfer" /\ lastTx[j].dst \in ReserveVaults)
         => lastTx[j].dst = ReadVault
  /\ \A a \in ReserveVaults \ {ReadVault} : LedgerBalance(a) = <<>>

(***************************************************************************)
(* C29.  Concurrent first start: processes that run load-or-generate while *)
(* the keystore file is absent all end up with the credential that is in   *)
(* the keystore file; no process that is up holds a credential different   *)
(* from the persisted one.                                                 *)
(***************************************************************************)
C29_ConcurrentFirstStart ==
  \A h \in Hosts : boot[h].pc = "up" => boot[h].keypair = keystore

=============================================================================
